---- MODULE Spec2Model ----
(***************************************************************************)
(* A model of the Saizeriya menu simulator (src/unnamed/part_001, of which *)
(* src/src/App.tsx is an earlier copy): the pure helpers computeTotals,    *)
(* createSavedCombo, validateSavedCombo, the passFail memo, and the        *)
(* handlers of the SaizeriyaSimulator component as a state machine.        *)
(*                                                                         *)
(* Numbers.  Ledger quantities are JavaScript numbers and need not be      *)
(* integers.  A quantity is stored as an integer count of 1/Denom units    *)
(* (with Denom = 2 the stored 3 is the quantity 1.5).  Prices, nutrition   *)
(* values and target thresholds are whole numbers; a total, being a sum of *)
(* value * quantity, is again a count of 1/Denom units.                    *)
(*                                                                         *)
(* JSON values.  A value whose JavaScript type the code inspects (typeof,  *)
(* truthiness, Array.isArray) is a pair <<tag, payload>>.                  *)
(***************************************************************************)
EXTENDS Integers, Sequences, FiniteSets, TLC

\* ------------------------------------------------------------------ bounds

\* Quantities are multiples of 1/Denom.
Denom == 2

\* The longest catalog.
MaxItems == 2

\* The number of handlers the user invokes from the initial state.
MaxSteps == 2

\* The last clock value (milliseconds since the start).
MaxClock == 1

\* --------------------------------------------------------------- constants

MAX_SAVES == 50

DefaultBudget == 1000

\* ------------------------------------------------------------- JSON values

Undefined == <<"undefined", 0>>

Null == <<"null", 0>>

Num(n) == <<"number", n>>

Str(s) == <<"string", s>>

Obj(r) == <<"object", r>>

Arr(s) == <<"array", s>>

\* typeof v
TypeOf(v) ==
    IF v[1] \in {"null", "array"} THEN "object" ELSE v[1]

\* the truthiness of v, as in `s && ...`
Truthy(v) ==
    CASE v[1] \in {"undefined", "null"} -> FALSE
      [] v[1] = "number" -> v[2] # 0
      [] v[1] = "string" -> v[2] # ""
      [] OTHER -> TRUE

\* s.k, undefined when s has no property k
Get(s, k) ==
    IF s[1] = "object" /\ k \in DOMAIN s[2] THEN s[2][k] ELSE Undefined

\* ---------------------------------------------------------------- numbers

Max(a, b) == IF a >= b THEN a ELSE b

Min(a, b) == IF a <= b THEN a ELSE b

\* Math.floor of a quantity
Floor(v) == (v \div Denom) * Denom

\* v is a whole number
IsInteger(v) == v % Denom = 0

\* qty[id] || 0
OrZero(q, id) == IF id \in DOMAIN q /\ q[id] # 0 THEN q[id] ELSE 0

RECURSIVE sum(_)
sum(arr) == IF arr = <<>> THEN 0 ELSE arr[1] + sum(Tail(arr))

\* ------------------------------------------------------------ computeTotals

getQtyNoClamp(q, id) == OrZero(q, id)

\* a quantity that counts a negative entry by its magnitude
getQtyMagnitude(q, id) == IF OrZero(q, id) < 0 THEN 0 - OrZero(q, id) ELSE OrZero(q, id)

getQty(q, id) == Max(0, OrZero(q, id))

pick(its, q, k) ==
    sum([i \in 1..Len(its) |->
            IF k \in DOMAIN its[i] THEN its[i][k] * getQty(q, its[i].id) ELSE 0])

computeTotals(its, q) ==
    [count   |-> sum([i \in 1..Len(its) |-> getQty(q, its[i].id)]),
     price   |-> pick(its, q, "price"),
     kcal    |-> pick(its, q, "kcal"),
     protein |-> pick(its, q, "protein"),
     fat     |-> pick(its, q, "fat"),
     carbs   |-> pick(its, q, "carbs"),
     salt    |-> pick(its, q, "salt")]

\* ------------------------------------------------------------------- text

\* A string the code inspects (a save name) is a sequence of characters.
RECURSIVE TrimLeft(_)
TrimLeft(s) ==
    IF s # <<>> /\ s[1] = " " THEN TrimLeft(Tail(s)) ELSE s

RECURSIVE TrimRight(_)
TrimRight(s) ==
    IF s # <<>> /\ s[Len(s)] = " " THEN TrimRight(SubSeq(s, 1, Len(s) - 1)) ELSE s

\* name.trim()
Trim(s) == TrimRight(TrimLeft(s))

\* new Date(t).toLocaleString("ja-JP"): a non-empty rendering of the time
LocaleString(t) == <<"@", ToString(t)>>

\* --------------------------------------------------------- saved combos

\* the compacted ledger: entries with (v || 0) > 0, floored
compactQty(q) ==
    [k \in {j \in DOMAIN q : OrZero(q, j) > 0} |-> Max(0, Floor(OrZero(q, k)))]

\* a combo whose createdAt is the rendering of the time, not the time
createSavedComboTextTime(name, q, tg, t) ==
    Obj([id        |-> Str("save_" \o ToString(t)),
         name      |-> Str(IF name # <<>> /\ Trim(name) # <<>>
                             THEN Trim(name) ELSE LocaleString(t)),
         createdAt |-> Str(LocaleString(t)),
         qty       |-> Obj(compactQty(q)),
         targets   |-> tg])

\* createSavedCombo(name, qty, targets) when Date.now() reads t; `tg` is the
\* targets argument as a JSON value (Undefined when it is left out).
createSavedCombo(name, q, tg, t) ==
    Obj([id        |-> Str("save_" \o ToString(t)),
         name      |-> Str(IF name # <<>> /\ Trim(name) # <<>>
                             THEN Trim(name) ELSE LocaleString(t)),
         createdAt |-> Num(t),
         qty       |-> Obj(compactQty(q)),
         targets   |-> tg])

\* a check that does not look at createdAt
validateIgnoringCreatedAt(s) ==
    /\ Truthy(s)
    /\ TypeOf(s) = "object"
    /\ TypeOf(Get(s, "id")) = "string"
    /\ TypeOf(Get(s, "name")) = "string"
    /\ Truthy(Get(s, "qty"))
    /\ TypeOf(Get(s, "qty")) = "object"

validateSavedCombo(s) ==
    /\ Truthy(s)
    /\ TypeOf(s) = "object"
    /\ TypeOf(Get(s, "id")) = "string"
    /\ TypeOf(Get(s, "name")) = "string"
    /\ TypeOf(Get(s, "createdAt")) = "number"
    /\ Truthy(Get(s, "qty"))
    /\ TypeOf(Get(s, "qty")) = "object"

\* ---------------------------------------------------------------- targets

\* targets.k !== undefined
HasTarget(tg, k) == tg[1] = "object" /\ k \in DOMAIN tg[2]

passFailStrict(tot, tg) ==
    [budget  |-> IF ~HasTarget(tg, "budget") THEN TRUE
                 ELSE tot.price < tg[2].budget * Denom,
     kcal    |-> IF ~HasTarget(tg, "maxKcal") THEN TRUE
                 ELSE tot.kcal < tg[2].maxKcal * Denom,
     protein |-> IF ~HasTarget(tg, "minProtein") THEN TRUE
                 ELSE tot.protein > tg[2].minProtein * Denom,
     salt    |-> IF ~HasTarget(tg, "maxSalt") THEN TRUE
                 ELSE tot.salt < tg[2].maxSalt * Denom]

\* the passFail memo; a total counts 1/Denom units, a threshold whole units
passFail(tot, tg) ==
    [budget  |-> IF ~HasTarget(tg, "budget") THEN TRUE
                 ELSE tot.price <= tg[2].budget * Denom,
     kcal    |-> IF ~HasTarget(tg, "maxKcal") THEN TRUE
                 ELSE tot.kcal <= tg[2].maxKcal * Denom,
     protein |-> IF ~HasTarget(tg, "minProtein") THEN TRUE
                 ELSE tot.protein >= tg[2].minProtein * Denom,
     salt    |-> IF ~HasTarget(tg, "maxSalt") THEN TRUE
                 ELSE tot.salt <= tg[2].maxSalt * Denom]

\* the initial targets of the component
DefaultTargets ==
    Obj([budget |-> 1000, maxKcal |-> 900, minProtein |-> 20, maxSalt |-> 6])

\* ------------------------------------------------------------ model inputs

\* The two items of runSelfTests, an item carrying every attribute, a free
\* item, and an item that repeats the id "a" (the editor accepts both).
ItemA == [id |-> "a", name |-> "A", category |-> "Staple", price |-> 100, protein |-> 10]

ItemB == [id |-> "b", name |-> "B", category |-> "SideDish", price |-> 200, protein |-> 5]

ItemC ==
    [id |-> "c", name |-> "C", category |-> "Staple", price |-> 300, kcal |-> 500,
     protein |-> 13, fat |-> 18, carbs |-> 75, salt |-> 2]

ItemFree == [id |-> "w", name |-> "W", category |-> "Side", price |-> 0]

ItemA2 == [id |-> "a", name |-> "A2", category |-> "SideDish", price |-> 600, protein |-> 30]

ItemPool == {ItemA, ItemB, ItemC, ItemFree, ItemA2}

\* all sequences over S of length at most n
SeqsUpTo(S, n) == UNION {[1..k -> S] : k \in 0..n}

Catalogs == SeqsUpTo(ItemPool, MaxItems)

\* ledger keys: the ids of the pool and an id no item has
LedgerIds == {"a", "b", "c", "x"}

\* ledger values: -1, 0, the smallest positive fraction, 1 and 2
LedgerVals == {-Denom, 0, 1, Denom, 2 * Denom}

Ledgers == UNION {[D -> LedgerVals] : D \in SUBSET LedgerIds}

\* ------------------------------------------------------------------- state

VARIABLES
    items,      \* the catalog (useState `items`)
    qty,        \* the ledger (useState `qty`)
    targets,    \* the targets, a JSON value (useState `targets`)
    saveName,   \* the text of the save-name input
    saves,      \* the saved combos, oldest first (useState `saves`)
    now,        \* Date.now()
    reading,    \* the FileReader reads in flight
    pc,         \* "idle", or the strategy handler that is running
    sorted,     \* greedy `sorted` / random `pool`, while the handler runs
    next,       \* the ledger a strategy is building
    cost,       \* the running cost of a strategy
    idx,        \* the position of a strategy's for loop in `sorted`
    steps,      \* handlers invoked so far
    last,       \* the last handler that completed, with its input
    serial,     \* for each entry of `saves`, its insertion number
    inserted,   \* the number of entries inserted so far
    call,       \* a direct call of a pure function: its name and arguments
    ret         \* the value that call returned

appVars == <<items, qty, targets, saveName, saves, now, reading>>

runVars == <<pc, sorted, next, cost, idx>>

histVars == <<steps, last, serial, inserted>>

pureVars == <<call, ret>>

vars == <<appVars, runVars, histVars, pureVars>>

NoCall == [fn |-> "none"]

\* The state of a freshly mounted component whose persisted catalog is `its`
\* and whose persisted targets are `tg`; nothing else is persisted.
Mounted(its, tg) ==
    /\ items = its
    /\ qty = <<>>
    /\ targets = tg
    /\ saveName = LocaleString(0)
    /\ saves = <<>>
    /\ now = 0
    /\ reading = <<>>
    /\ pc = "idle"
    /\ sorted = <<>>
    /\ next = <<>>
    /\ cost = 0
    /\ idx = 0
    /\ steps = 0
    /\ last = [op |-> "mount"]
    /\ serial = <<>>
    /\ inserted = 0
    /\ call = NoCall
    /\ ret = <<>>

\* ------------------------------------------- direct calls of pure functions

\* runSelfTests calls the pure helpers on literal arguments; here each is
\* called once on arguments drawn from bounded sets.

CallComputeTotals ==
    /\ call = NoCall
    /\ \E its \in Catalogs, q \in Ledgers :
        /\ call' = [fn |-> "computeTotals", items |-> its, qty |-> q]
        /\ ret' = computeTotals(its, q)
    /\ UNCHANGED <<appVars, runVars, histVars>>

\* names: empty, blank, padded and plain
SaveNames == {<<>>, <<" ">>, <<" ", "x", " ">>, <<"x">>}

TargetsArgs == {Undefined, Obj([budget |-> 500]), DefaultTargets}

CallCreateSavedCombo ==
    /\ call = NoCall
    /\ \E nm \in SaveNames, q \in Ledgers, tg \in TargetsArgs, t \in 0..MaxClock :
        /\ call' = [fn |-> "createSavedCombo", name |-> nm, qty |-> q, targets |-> tg, t |-> t]
        /\ ret' = createSavedCombo(nm, q, tg, t)
    /\ UNCHANGED <<appVars, runVars, histVars>>

\* thresholds of the default targets, each present or not
TargetsChoices ==
    {Obj([k \in D |-> DefaultTargets[2][k]]) : D \in SUBSET DOMAIN DefaultTargets[2]}

\* 0, and a total just below, at, just above and one whole unit above a threshold
Around(n) == {0, n * Denom - 1, n * Denom, n * Denom + 1, (n + 1) * Denom}

TotalsChoices ==
    {[count |-> 0, price |-> p, kcal |-> k, protein |-> pr, fat |-> 0, carbs |-> 0, salt |-> s] :
        p \in Around(1000), k \in Around(900), pr \in Around(20), s \in Around(6)}

CallPassFail ==
    /\ call = NoCall
    /\ \E tot \in TotalsChoices, tg \in TargetsChoices :
        /\ call' = [fn |-> "passFail", totals |-> tot, targets |-> tg]
        /\ ret' = passFail(tot, tg)
    /\ UNCHANGED <<appVars, runVars, histVars>>

\* ------------------------------------------------------------- simpleFilter

\* In simpleFilter a string is the sequence of its code points, so that
\* toLowerCase and trim are computed on what the string holds.

\* String.prototype.toLowerCase on one code point: of the code points used
\* here only the ASCII capitals have a lower-case form
toLowerCaseNothing(c) == c

toLowerCase(c) == IF c \in 65..90 THEN c + 32 ELSE c

lowered(str) == [i \in 1..Len(str) |-> toLowerCase(str[i])]

\* white space for String.prototype.trim: tab, line feed, space, no-break
\* space, ideographic space
WhiteSpace == {9, 10, 32, 160, 12288}

RECURSIVE trimStart(_)
trimStart(str) ==
    IF str # <<>> /\ str[1] \in WhiteSpace THEN trimStart(Tail(str)) ELSE str

RECURSIVE trimEnd(_)
trimEnd(str) ==
    IF str # <<>> /\ str[Len(str)] \in WhiteSpace
    THEN trimEnd(SubSeq(str, 1, Len(str) - 1))
    ELSE str

trim(str) == trimEnd(trimStart(str))

\* strs.join(" ")
RECURSIVE join(_)
join(strs) ==
    IF strs = <<>> THEN <<>>
    ELSE IF Len(strs) = 1 THEN strs[1]
    ELSE strs[1] \o <<32>> \o join(Tail(strs))

\* str.includes(key)
includes(str, key) ==
    \E i \in 1..(Len(str) - Len(key) + 1) : SubSeq(str, i, i + Len(key) - 1) = key

\* [it.name, it.category, ...(it.tags || [])].join(" ").toLowerCase().includes(key)
matchesKey(it, key) ==
    includes(lowered(join(<<it.name, it.category>>
                          \o (IF "tags" \in DOMAIN it THEN it.tags ELSE <<>>))), key)

\* items.filter(...)
RECURSIVE filterByKey(_, _)
filterByKey(its, key) ==
    IF its = <<>> THEN <<>>
    ELSE (IF matchesKey(its[1], key) THEN <<its[1]>> ELSE <<>>) \o filterByKey(Tail(its), key)

simpleFilter(its, q) ==
    LET key == lowered(trim(q)) IN
    IF key = <<>> THEN its ELSE filterByKey(its, key)

\* the words of runSelfTests, and "pasta" in three spellings
Peperoncino == <<12506, 12506, 12525, 12531, 12481, 12540, 12494>>

Shushoku == <<20027, 39135>>

PastaKana == <<12497, 12473, 12479>>

Hamburg == <<12495, 12531, 12496, 12540, 12464>>

Okazu == <<12362, 12363, 12378>>

Pasta == <<80, 97, 115, 116, 97>>

PASTA == <<80, 65, 83, 84, 65>>

pasta == <<112, 97, 115, 116, 97>>

\* the two items of the self-test, an item tagged "pasta", and an item named
\* "PASTA" in capitals
P1 == [id |-> "p1", name |-> Peperoncino, category |-> Shushoku, price |-> 400,
       tags |-> <<PastaKana>>]

P2 == [id |-> "p2", name |-> Hamburg, category |-> Okazu, price |-> 500]

P3 == [id |-> "p3", name |-> Hamburg, category |-> Shushoku, price |-> 300,
       tags |-> <<Okazu, pasta>>]

P4 == [id |-> "p4", name |-> PASTA, category |-> Okazu, price |-> 300, tags |-> <<>>]

FilterCatalogs == SeqsUpTo({P1, P2, P3, P4}, MaxItems)

\* queries: empty, blank, the words above, padded with spaces, a word that
\* ends one field and starts the next, and a word no item has
FilterQueries ==
    {<<>>, <<32>>, <<12288, 32>>, Pasta, PASTA, pasta, <<32>> \o pasta \o <<32, 32>>,
     PastaKana, Hamburg, <<12288>> \o Hamburg, <<39135, 32, 12497>>, <<97, 32, 12362>>,
     <<122>>}

CallSimpleFilter ==
    /\ call = NoCall
    /\ \E its \in FilterCatalogs, q \in FilterQueries :
        /\ call' = [fn |-> "simpleFilter", items |-> its, q |-> q]
        /\ ret' = simpleFilter(its, q)
    /\ UNCHANGED <<appVars, runVars, histVars>>

\* candidates for validateSavedCombo: values that are not objects, and
\* objects whose id, name, createdAt, qty and targets are each absent,
\* well-formed, or of another type
Absent == <<"absent", 0>>

CandidateFields ==
    [id        : {Absent, Str("s"), Str(""), Num(7), Null},
     name      : {Absent, Str("n"), Num(1)},
     createdAt : {Absent, Num(0), Str("0")},
     qty       : {Absent, Obj(<<>>), Obj([a |-> -Denom, x |-> 1]), Arr(<<>>), Null, Num(3), Str("q")},
     targets   : {Absent, Obj([budget |-> 500]), Str("t"), Null}]

Candidates ==
    {Undefined, Null, Num(0), Num(1), Str(""), Str("s"), Arr(<<>>)}
        \cup {Obj([k \in {j \in DOMAIN f : f[j] # Absent} |-> f[k]]) : f \in CandidateFields}

CallValidateSavedCombo ==
    /\ call = NoCall
    /\ \E s \in Candidates :
        /\ call' = [fn |-> "validateSavedCombo", s |-> s]
        /\ ret' = validateSavedCombo(s)
    /\ UNCHANGED <<appVars, runVars, histVars>>

InitPure == Mounted(<<ItemA, ItemB>>, DefaultTargets)

NextPure ==
    \/ CallSimpleFilter
    \/ CallPassFail
    \/ CallComputeTotals

SpecPure == InitPure /\ [][NextPure]_vars

\* calls of the pure functions of saved combos
InitSavedCombo == Mounted(<<ItemA, ItemB>>, DefaultTargets)

NextSavedCombo ==
    \/ CallValidateSavedCombo
    \/ CallCreateSavedCombo

SpecSavedCombo == InitSavedCombo /\ [][NextSavedCombo]_vars

\* ------------------------------------------------- binary64 arithmetic

\* The numbers of the code are IEEE 754 binary64 values, and `*` and `+` round
\* to the nearest value, ties to even.  With whole attributes and quantities
\* that are multiples of 1/Denom no operation of computeTotals rounds, and the
\* fixed-point arithmetic above is what the code computes.  The attributes of
\* the default catalog are decimal fractions (salt: 2.7), which binary64 does
\* not hold exactly; this section computes with them as the code does.
\*
\* A finite value that is not negative is a record [m, e]: m the bits of an
\* odd integer, least significant first, and the value is m * 2^e.  Zero has
\* no bits.  The representation is canonical: equal values are equal records.

\* the number of bits of a binary64 significand
Precision == 53

DblZero == [m |-> <<>>, e |-> 0]

\* the canonical record of bits * 2^e
RECURSIVE Canon(_, _)
Canon(bits, e) ==
    IF bits = <<>> THEN DblZero
    ELSE IF bits[1] = 0 THEN Canon(Tail(bits), e + 1)
    ELSE [m |-> bits, e |-> e]

\* bits without the zeros at its most significant end
RECURSIVE StripHigh(_)
StripHigh(bits) ==
    IF bits # <<>> /\ bits[Len(bits)] = 0
    THEN StripHigh(SubSeq(bits, 1, Len(bits) - 1))
    ELSE bits

\* a + b + c for a and b of the same length n: n + 1 bits, the last one the
\* carry out (by halves, the carry of the low half going into the high half)
RECURSIVE AddCarry(_, _, _)
AddCarry(a, b, c) ==
    IF a = <<>> THEN <<c>>
    ELSE IF Len(a) = 1 THEN <<(a[1] + b[1] + c) % 2, (a[1] + b[1] + c) \div 2>>
    ELSE LET h == Len(a) \div 2
             lo == AddCarry(SubSeq(a, 1, h), SubSeq(b, 1, h), c)
             hi == AddCarry(SubSeq(a, h + 1, Len(a)), SubSeq(b, h + 1, Len(b)), lo[h + 1])
         IN SubSeq(lo, 1, h) \o hi

\* bits with zeros at its most significant end, n bits in all
PadHigh(bits, n) == bits \o [i \in 1..(n - Len(bits)) |-> 0]

\* a + b, exactly
AddBits(a, b) ==
    LET n == IF Len(a) >= Len(b) THEN Len(a) ELSE Len(b) IN
    AddCarry(PadHigh(a, n), PadHigh(b, n), 0)

\* a * b, exactly (by halves of b)
RECURSIVE MulBits(_, _)
MulBits(a, b) ==
    IF b = <<>> THEN <<>>
    ELSE IF Len(b) = 1 THEN (IF b[1] = 1 THEN a ELSE <<>>)
    ELSE LET h == Len(b) \div 2 IN
         AddBits(MulBits(a, SubSeq(b, 1, h)),
                 [i \in 1..h |-> 0] \o MulBits(a, SubSeq(b, h + 1, Len(b))))

\* bits * 2^n
ShiftLeft(bits, n) == [i \in 1..n |-> 0] \o bits

\* bits * 2^e rounded to Precision bits: to nearest, ties to even
RoundToNearestEven(bits, e) ==
    LET b == StripHigh(bits)
        d == Len(b) - Precision
    IN
    IF d <= 0 THEN Canon(b, e)
    ELSE LET kept == SubSeq(b, d + 1, Len(b))
             half == b[d] = 1
             sticky == \E i \in 1..(d - 1) : b[i] = 1
             up == half /\ (sticky \/ kept[1] = 1)
         IN Canon(StripHigh(IF up THEN AddBits(kept, <<1>>) ELSE kept), e + d)

\* x * y
DblMul(x, y) ==
    IF x.m = <<>> \/ y.m = <<>> THEN DblZero
    ELSE RoundToNearestEven(MulBits(x.m, y.m), x.e + y.e)

\* x + y
DblAdd(x, y) ==
    IF x.m = <<>> THEN y
    ELSE IF y.m = <<>> THEN x
    ELSE LET e == Min(x.e, y.e) IN
         RoundToNearestEven(AddBits(ShiftLeft(x.m, x.e - e), ShiftLeft(y.m, y.e - e)), e)

\* the bits of the natural number n
RECURSIVE NatBits(_)
NatBits(n) == IF n = 0 THEN <<>> ELSE <<n % 2>> \o NatBits(n \div 2)

\* the binary64 value of the natural number n
DblOfNat(n) == Canon(NatBits(n), 0)

\* 2.7 as binary64 (0x400599999999999A)
Dbl2_7 ==
    [m |-> <<1, 0, 1, 1, 0, 0, 1, 1, 0, 0, 1, 1, 0, 0, 1, 1, 0, 0, 1, 1, 0, 0, 1, 1, 0, 0, 1,
           1, 0, 0, 1, 1, 0, 0, 1, 1, 0, 0, 1, 1, 0, 0, 1, 1, 0, 0, 1, 1, 0, 1, 0, 1>>,
     e |-> -50]

\* 0.2 as binary64 (0x3FC999999999999A)
Dbl0_2 ==
    [m |-> <<1, 0, 1, 1, 0, 0, 1, 1, 0, 0, 1, 1, 0, 0, 1, 1, 0, 0, 1, 1, 0, 0, 1, 1, 0, 0, 1,
           1, 0, 0, 1, 1, 0, 0, 1, 1, 0, 0, 1, 1, 0, 0, 1, 1, 0, 0, 1, 1, 0, 0, 1, 1>>,
     e |-> -54]

\* 2.4 as binary64 (0x4003333333333333)
Dbl2_4 ==
    [m |-> <<1, 1, 0, 0, 1, 1, 0, 0, 1, 1, 0, 0, 1, 1, 0, 0, 1, 1, 0, 0, 1, 1, 0, 0, 1, 1, 0,
           0, 1, 1, 0, 0, 1, 1, 0, 0, 1, 1, 0, 0, 1, 1, 0, 0, 1, 1, 0, 0, 1, 1, 0, 0, 1>>,
     e |-> -51]

\* three items of the default catalog (defaultItems), with the attributes
\* computeTotals reads
DblItem(id, price, kcal, protein, fat, carbs, salt) ==
    [id |-> id, price |-> DblOfNat(price), kcal |-> DblOfNat(kcal),
     protein |-> DblOfNat(protein), fat |-> DblOfNat(fat), carbs |-> DblOfNat(carbs),
     salt |-> salt]

MilanDoria == DblItem("milan_doria", 300, 500, 13, 18, 75, Dbl2_4)

SoftEggMilan == DblItem("soft_egg_milan", 350, 580, 17, 20, 78, Dbl2_7)

TruffleIce == DblItem("truffle_ice", 350, 210, 4, 12, 22, Dbl0_2)

\* the largest whole quantity of a ledger entry
MaxQty == 3

\* the largest factor a ledger is scaled by
MaxScale == 3

DblCatalogs == SeqsUpTo({MilanDoria, SoftEggMilan, TruffleIce}, MaxItems)

\* ledgers of whole quantities, as setItemQty writes them
WholeLedgers == [{"milan_doria", "soft_egg_milan", "truffle_ice"} -> 0..MaxQty]

\* arr.reduce((a, b) => a + b, 0)
RECURSIVE DblSum(_, _)
DblSum(arr, acc) ==
    IF arr = <<>> THEN acc ELSE DblSum(Tail(arr), DblAdd(acc, arr[1]))

\* computeTotals in binary64 arithmetic, the quantities being whole
computeTotalsBinary64(its, q) ==
    LET qtyOf(id) == DblOfNat(Max(0, IF id \in DOMAIN q THEN q[id] ELSE 0))
        pickDbl(k) ==
            DblSum([i \in 1..Len(its) |->
                       IF k \in DOMAIN its[i] THEN DblMul(its[i][k], qtyOf(its[i].id))
                       ELSE DblZero], DblZero)
    IN
    [count   |-> DblSum([i \in 1..Len(its) |-> qtyOf(its[i].id)], DblZero),
     price   |-> pickDbl("price"),
     kcal    |-> pickDbl("kcal"),
     protein |-> pickDbl("protein"),
     fat     |-> pickDbl("fat"),
     carbs   |-> pickDbl("carbs"),
     salt    |-> pickDbl("salt")]

CallComputeTotalsBinary64 ==
    /\ call = NoCall
    /\ \E its \in DblCatalogs, q \in WholeLedgers :
        /\ call' = [fn |-> "computeTotalsBinary64", items |-> its, qty |-> q]
        /\ ret' = computeTotalsBinary64(its, q)
    /\ UNCHANGED <<appVars, runVars, histVars>>

InitBinary64 == Mounted(<<ItemA, ItemB>>, DefaultTargets)

NextBinary64 == CallComputeTotalsBinary64

SpecBinary64 == InitBinary64 /\ [][NextBinary64]_vars

\* ------------------------------------------------------------- strategies

\* A strategy counts units in a JavaScript number, which stops growing under
\* +1 at 2^53; the model's counts stop at MaxUnits, which no run that ends
\* reaches (at most DefaultBudget / 100 units fit a budget).
MaxUnits == 12

\* targets.budget ?? 1000
Budget(tg) == IF HasTarget(tg, "budget") THEN tg[2].budget ELSE DefaultBudget

\* it.protein || 0
ProteinOrZero(it) == IF "protein" \in DOMAIN it THEN it.protein ELSE 0

\* The ratio (it.protein || 0) / it.price is a finite number, Infinity (a free
\* item with protein) or NaN (0 / 0).
RatioClass(it) ==
    IF it.price # 0 THEN "finite"
    ELSE IF ProteinOrZero(it) > 0 THEN "inf" ELSE "nan"

\* ratio(a) > ratio(b), false when either is NaN
RatioGreater(a, b) ==
    CASE RatioClass(a) = "nan" \/ RatioClass(b) = "nan" -> FALSE
      [] RatioClass(a) = "inf" -> RatioClass(b) = "finite"
      [] RatioClass(b) = "inf" -> FALSE
      [] OTHER ->
            IF a.price * b.price > 0
            THEN ProteinOrZero(a) * b.price > ProteinOrZero(b) * a.price
            ELSE ProteinOrZero(a) * b.price < ProteinOrZero(b) * a.price

\* the comparator (a, b) => rb - ra is negative: a sorts before b
SortsBefore(a, b) == RatioGreater(a, b)

\* the comparator returns 0 or NaN, which the sort reads as 0
SortsEqual(a, b) == ~SortsBefore(a, b) /\ ~SortsBefore(b, a)

\* the comparator is a consistent comparison function for the elements of its
ConsistentComparator(its) ==
    \A i, j, k \in 1..Len(its) :
        /\ (SortsEqual(its[i], its[j]) /\ SortsEqual(its[j], its[k]))
              => SortsEqual(its[i], its[k])
        /\ (SortsBefore(its[i], its[j]) /\ SortsEqual(its[j], its[k]))
              => SortsBefore(its[i], its[k])
        /\ (SortsEqual(its[i], its[j]) /\ SortsBefore(its[j], its[k]))
              => SortsBefore(its[i], its[k])

Orderings(n) ==
    {p \in [1..n -> 1..n] : \A i, j \in 1..n : p[i] = p[j] => i = j}

\* p orders its by descending ratio, equal elements in their incoming order
StableDescending(its, p) ==
    \A i, j \in 1..Len(its) :
        i < j =>
            /\ ~SortsBefore(its[p[j]], its[p[i]])
            /\ SortsEqual(its[p[i]], its[p[j]]) => p[i] < p[j]

\* [...items].sort(byRatio): the stable sort, or any order when the comparator
\* is not consistent (the order is then implementation-defined)
greedySorted(its) ==
    {[i \in 1..Len(its) |-> its[p[i]]] :
        p \in {r \in Orderings(Len(its)) :
                  ConsistentComparator(its) => StableDescending(its, r)}}

\* [...items].sort(() => Math.random() - 0.5): any order
randomPool(its) ==
    {[i \in 1..Len(its) |-> its[p[i]]] : p \in Orderings(Len(its))}

\* next[id] = (next[id] || 0) + 1
addUnit(nx, id) ==
    [k \in DOMAIN nx \cup {id} |->
        IF k = id THEN Min(OrZero(nx, id) + Denom, MaxUnits * Denom) ELSE nx[k]]

\* Math.min(...sorted.map((x) => x.price)), for a non-empty sorted
minPrice(its) ==
    CHOOSE m \in {its[i].price : i \in 1..Len(its)} :
        \A i \in 1..Len(its) : m <= its[i].price

\* sorted.every((it) => cost + it.price > budget)
nothingFits(its, c, b) == \A i \in 1..Len(its) : c + its[i].price > b

\* the click on a strategy button: the handler starts
greedyStart ==
    /\ pc = "idle"
    /\ steps < MaxSteps
    /\ steps' = steps + 1
    /\ pc' = "greedy"
    /\ sorted' \in greedySorted(items)
    /\ next' = <<>>
    /\ cost' = 0
    /\ idx' = 1
    /\ UNCHANGED <<appVars, last, serial, inserted, pureVars>>

\* one pass of `for (const it of sorted)`: the unit, then the inner break test
greedyScan ==
    /\ pc = "greedy"
    /\ idx <= Len(sorted)
    /\ LET it == sorted[idx]
           fits == cost + it.price <= Budget(targets)
           nx == IF fits THEN addUnit(next, it.id) ELSE next
           c == IF fits THEN cost + it.price ELSE cost
       IN
       IF c + minPrice(sorted) > Budget(targets)
       THEN \* break outer; setQty(next): the handler returns
            /\ qty' = nx
            /\ last' = [op |-> "greedy", cost |-> c]
            /\ pc' = "idle"
            /\ sorted' = <<>>
            /\ next' = <<>>
            /\ cost' = 0
            /\ idx' = 0
       ELSE /\ next' = nx
            /\ cost' = c
            /\ idx' = idx + 1
            /\ UNCHANGED <<pc, qty, last, sorted>>
    /\ UNCHANGED <<items, targets, saveName, saves, now, reading,
                   steps, serial, inserted, pureVars>>

\* the end of the for loop: the `every` test of the while loop
greedyEndOfScan ==
    /\ pc = "greedy"
    /\ idx = Len(sorted) + 1
    /\ IF nothingFits(sorted, cost, Budget(targets))
       THEN \* break; setQty(next): the handler returns
            /\ qty' = next
            /\ last' = [op |-> "greedy", cost |-> cost]
            /\ pc' = "idle"
            /\ sorted' = <<>>
            /\ next' = <<>>
            /\ cost' = 0
            /\ idx' = 0
       ELSE /\ idx' = 1
            /\ UNCHANGED <<pc, qty, last, sorted, next, cost>>
    /\ UNCHANGED <<items, targets, saveName, saves, now, reading,
                   steps, serial, inserted, pureVars>>

randomStart ==
    /\ pc = "idle"
    /\ steps < MaxSteps
    /\ steps' = steps + 1
    /\ pc' = "random"
    /\ sorted' \in randomPool(items)
    /\ next' = <<>>
    /\ cost' = 0
    /\ idx' = 1
    /\ UNCHANGED <<appVars, last, serial, inserted, pureVars>>

\* one unit of an item: added when it fits and Math.random() > 0.25
randomUnit(st, it, accept, b) ==
    IF st.cost + it.price <= b /\ accept
    THEN [next |-> addUnit(st.next, it.id), cost |-> st.cost + it.price]
    ELSE st

\* one pass of `for (const it of pool)`: one or two units of the item
randomItem ==
    /\ pc = "random"
    /\ idx <= Len(sorted)
    /\ \E repeat \in {1, 2}, accept \in [1..2 -> BOOLEAN] :
        LET it == sorted[idx]
            s0 == [next |-> next, cost |-> cost]
            s1 == randomUnit(s0, it, accept[1], Budget(targets))
            s2 == IF repeat = 2 THEN randomUnit(s1, it, accept[2], Budget(targets)) ELSE s1
        IN
        /\ next' = s2.next
        /\ cost' = s2.cost
    /\ idx' = idx + 1
    /\ UNCHANGED <<appVars, pc, sorted, histVars, pureVars>>

\* a handler that ends with setQty((prev) => ({ ...prev, ...next }))
randomDoneAdditive ==
    /\ pc = "random"
    /\ idx = Len(sorted) + 1
    /\ qty' = [k \in DOMAIN qty \cup DOMAIN next |->
                  IF k \in DOMAIN next THEN next[k] ELSE qty[k]]
    /\ last' = [op |-> "random", cost |-> cost]
    /\ pc' = "idle"
    /\ sorted' = <<>>
    /\ next' = <<>>
    /\ cost' = 0
    /\ idx' = 0
    /\ UNCHANGED <<items, targets, saveName, saves, now, reading,
                   steps, serial, inserted, pureVars>>

\* the end of the for loop: setQty(next)
randomDone ==
    /\ pc = "random"
    /\ idx = Len(sorted) + 1
    /\ qty' = next
    /\ last' = [op |-> "random", cost |-> cost]
    /\ pc' = "idle"
    /\ sorted' = <<>>
    /\ next' = <<>>
    /\ cost' = 0
    /\ idx' = 0
    /\ UNCHANGED <<items, targets, saveName, saves, now, reading,
                   steps, serial, inserted, pureVars>>

\* budgets: unset, nothing affordable, one and a half items, several items
StrategyTargets ==
    {Obj(<<>>)} \cup {Obj([budget |-> b]) : b \in {0, 250, 500}}

\* catalogs for the strategies: the pool without the item of many attributes,
\* and a catalog of three items whose second one is free and without protein
StrategyCatalogs ==
    SeqsUpTo(ItemPool \ {ItemC}, MaxItems) \cup {<<ItemB, ItemFree, ItemA>>}

InitStrategy == \E its \in StrategyCatalogs, tg \in StrategyTargets : Mounted(its, tg)

NextStrategy ==
    \/ greedyStart
    \/ greedyScan
    \/ greedyEndOfScan
    \/ randomStart
    \/ randomItem
    \/ randomDone

SpecStrategy == InitStrategy /\ [][NextStrategy]_vars

\* A running handler runs on: the engine executes its next step.
FairSpecStrategy ==
    /\ SpecStrategy
    /\ WF_vars(greedyScan)
    /\ WF_vars(greedyEndOfScan)
    /\ WF_vars(randomItem)
    /\ WF_vars(randomDone)

\* ------------------------------------------------------------ saved combos

\* s.slice(start): from index start, counted from the end when negative
slice(s, start) ==
    IF start < 0
    THEN SubSeq(s, Max(Len(s) + start, 0) + 1, Len(s))
    ELSE SubSeq(s, start + 1, Len(s))

\* s.filter((_, i) => keep[i])
RECURSIVE filterSeq(_, _)
filterSeq(s, keep) ==
    IF s = <<>> THEN <<>>
    ELSE (IF keep[1] THEN <<s[1]>> ELSE <<>>) \o filterSeq(Tail(s), Tail(keep))

insertSaveKeepsAll(prev, saved) == Append(slice(prev, -MAX_SAVES), saved)

\* [...prev.slice(-MAX_SAVES + 1), saved]
insertSave(prev, saved) == Append(slice(prev, -MAX_SAVES + 1), saved)

appendValidDropsNewest(prev, valid) == SubSeq(prev \o valid, 1, Min(Len(prev \o valid), MAX_SAVES))

\* an update that replaces the collection by the imported entries
appendValidOverwrites(prev, valid) == slice(valid, -MAX_SAVES)

\* [...prev, ...valid].slice(-MAX_SAVES)
appendValid(prev, valid) == slice(prev \o valid, -MAX_SAVES)

\* JSON.parse(JSON.stringify(v)) of an object: a property whose value is
\* undefined is left out
jsonRoundTrip(v) ==
    IF v[1] = "object"
    THEN Obj([k \in {j \in DOMAIN v[2] : v[2][j] # Undefined} |-> v[2][k]])
    ELSE v

\* the content of the file exportSaves downloads, as importSaves parses it
exportSaves(svs) == Arr([i \in 1..Len(svs) |-> jsonRoundTrip(svs[i])])

\* the clock advances
tick ==
    /\ pc = "idle"
    /\ now < MaxClock
    /\ now' = now + 1
    /\ UNCHANGED <<items, qty, targets, saveName, saves, reading, runVars, histVars, pureVars>>

\* typing in the save-name input
setSaveName ==
    /\ pc = "idle"
    /\ steps < MaxSteps
    /\ steps' = steps + 1
    /\ \E nm \in SaveNames \ {saveName} : saveName' = nm
    /\ last' = [op |-> "setSaveName"]
    /\ UNCHANGED <<items, qty, targets, saves, now, reading, runVars, serial, inserted, pureVars>>

saveCurrent ==
    /\ pc = "idle"
    /\ steps < MaxSteps
    /\ steps' = steps + 1
    /\ LET saved == createSavedCombo(saveName, qty, targets, now) IN
       /\ saves' = insertSave(saves, saved)
       /\ last' = [op |-> "saveCurrent", saved |-> saved]
    /\ serial' = insertSave(serial, inserted + 1)
    /\ inserted' = inserted + 1
    /\ saveName' = LocaleString(now)
    /\ UNCHANGED <<items, qty, targets, now, reading, runVars, pureVars>>

\* an id no saved combo has
AbsentId == Str("save_none")

\* the ids deleteSave is called with: those of the listed saves, and one that
\* is not listed
DeleteIds == {Get(saves[n], "id") : n \in 1..Len(saves)} \cup {AbsentId}

\* a handler that removes the first entry with the id, and no other
deleteSaveFirstMatch ==
    /\ pc = "idle"
    /\ steps < MaxSteps
    /\ steps' = steps + 1
    /\ \E id \in DeleteIds :
        LET keep == [i \in 1..Len(saves) |->
                        \/ Get(saves[i], "id") # id
                        \/ \E j \in 1..(i - 1) : Get(saves[j], "id") = id]
        IN
        /\ saves' = filterSeq(saves, keep)
        /\ serial' = filterSeq(serial, keep)
        /\ last' = [op |-> "deleteSave", id |-> id]
    /\ UNCHANGED <<items, qty, targets, saveName, now, reading, runVars, inserted, pureVars>>

\* deleteSave(id): setSaves((prev) => prev.filter((s) => s.id !== id))
deleteSave ==
    /\ pc = "idle"
    /\ steps < MaxSteps
    /\ steps' = steps + 1
    /\ \E id \in DeleteIds :
        LET keep == [i \in 1..Len(saves) |-> Get(saves[i], "id") # id] IN
        /\ saves' = filterSeq(saves, keep)
        /\ serial' = filterSeq(serial, keep)
        /\ last' = [op |-> "deleteSave", id |-> id]
    /\ UNCHANGED <<items, qty, targets, saveName, now, reading, runVars, inserted, pureVars>>

\* the load button of a listed save
loadSave ==
    /\ pc = "idle"
    /\ steps < MaxSteps
    /\ steps' = steps + 1
    /\ \E n \in 1..Len(saves) :
        LET s == saves[n]
            tg == Get(s, "targets")
        IN
        /\ qty' = Get(s, "qty")[2]
        /\ targets' = IF Truthy(tg)
                        THEN (IF tg[1] = "object" THEN tg ELSE Obj(<<>>))
                        ELSE targets
        /\ last' = [op |-> "loadSave", saved |-> s]
    /\ UNCHANGED <<items, saveName, saves, now, reading, runVars, serial, inserted, pureVars>>

\* entries a saves file may hold: two well-formed ones (the first with the id
\* of a combo saved at time 0, the second with a negative and a fractional
\* quantity, which the shallow validation lets through), one without a name
\* and one whose id is a number
ImportedA ==
    Obj([id |-> Str("save_0"), name |-> Str(<<"x">>), createdAt |-> Num(0),
         qty |-> Obj([a |-> 2 * Denom])])

ImportedB ==
    Obj([id |-> Str("old"), name |-> Str(<<"o">>), createdAt |-> Num(-1),
         qty |-> Obj([a |-> -Denom, x |-> 1]), targets |-> Obj([budget |-> 500])])

ImportedNoName ==
    Obj([id |-> Str("n"), createdAt |-> Num(0), qty |-> Obj(<<>>)])

ImportedNumericId ==
    Obj([id |-> Num(7), name |-> Str(<<"x">>), createdAt |-> Num(0), qty |-> Obj(<<>>)])

\* the i-th entry of a long saves file
bulkEntry(i) ==
    Obj([id |-> Str("bulk_" \o ToString(i)), name |-> Str(<<"b">>), createdAt |-> Num(-i),
         qty |-> Obj(<<>>)])

bulkFile(n) == Arr([i \in 1..n |-> bulkEntry(i)])

\* a file that is not JSON
Unparseable == <<"syntaxerror", 0>>

\* what JSON.parse(String(reader.result)) may meet: no JSON, JSON that is not
\* an array, an empty array, arrays mixing well-formed and malformed entries,
\* an array that holds an entry twice, and arrays just below and just above
\* the capacity
SaveFiles ==
    {Unparseable, Obj(<<>>), Arr(<<>>),
     Arr(<<ImportedA, ImportedNoName, ImportedB>>),
     Arr(<<ImportedNumericId, ImportedB>>),
     Arr(<<ImportedA, ImportedB, ImportedA>>),
     bulkFile(MAX_SAVES - 1), bulkFile(MAX_SAVES + 1)}

\* importSaves(file): the read starts; the file chosen is one of SaveFiles or
\* the file exportSaves has just written
importSaves ==
    /\ pc = "idle"
    /\ steps < MaxSteps
    /\ steps' = steps + 1
    /\ \E f \in SaveFiles \cup {exportSaves(saves)} :
        reading' = Append(reading, [kind |-> "saves", content |-> f])
    /\ last' = [op |-> "importSaves"]
    /\ UNCHANGED <<items, qty, targets, saveName, saves, now, runVars, serial, inserted, pureVars>>

\* a filter that lets every entry through
validEntriesKeepAll(arr) == arr

\* parsed.filter((s) => validateSavedCombo(s))
validEntries(arr) ==
    filterSeq(arr, [i \in 1..Len(arr) |-> validateSavedCombo(arr[i])])

\* reader.onload of importSaves: a read in flight completes
importSavesOnload ==
    /\ pc = "idle"
    /\ \E n \in 1..Len(reading) :
        LET parsed == reading[n].content IN
        /\ reading[n].kind = "saves"
        /\ reading' = [i \in 1..(Len(reading) - 1) |->
                          IF i < n THEN reading[i] ELSE reading[i + 1]]
        /\ IF parsed[1] = "array"
           THEN LET valid == validEntries(parsed[2]) IN
                /\ saves' = appendValid(saves, valid)
                /\ serial' = appendValid(serial, [i \in 1..Len(valid) |-> inserted + i])
                /\ inserted' = inserted + Len(valid)
                /\ last' = [op |-> "importSavesOnload", parsed |-> parsed[2], alert |-> FALSE,
                            after |-> last.op]
           ELSE \* JSON.parse threw, or "not an array" was thrown: alert
                /\ last' = [op |-> "importSavesOnload", parsed |-> <<>>, alert |-> TRUE,
                            after |-> last.op]
                /\ UNCHANGED <<saves, serial, inserted>>
    /\ UNCHANGED <<items, qty, targets, saveName, now, runVars, steps, pureVars>>

InitSaves == Mounted(<<ItemA, ItemB>>, DefaultTargets)

NextSaves ==
    \/ tick
    \/ saveCurrent
    \/ deleteSave
    \/ importSaves
    \/ importSavesOnload

SpecSaves == InitSaves /\ [][NextSaves]_vars

\* ------------------------------------------------------------ the ledger

\* what a number input delivers: Number(e.target.value), a number or NaN
NaN == <<"nan", 0>>

QtyInputs == {Num(v) : v \in LedgerVals} \cup {NaN}

\* Math.max(0, Math.floor(Number.isFinite(n) ? n : 0))
cleanQty(n) == Max(0, Floor(IF n[1] = "number" THEN n[2] ELSE 0))

\* setQty((prev) => ({ ...prev, [id]: v }))
withQty(q, id, v) == [k \in DOMAIN q \cup {id} |-> IF k = id THEN v ELSE q[k]]

\* the ids of the item cards on screen
ItemIds == {items[i].id : i \in 1..Len(items)}

\* the quantity input of an item card
setItemQty ==
    /\ pc = "idle"
    /\ steps < MaxSteps
    /\ steps' = steps + 1
    /\ \E id \in ItemIds, n \in QtyInputs :
        qty' = withQty(qty, id, cleanQty(n))
    /\ last' = [op |-> "setItemQty"]
    /\ UNCHANGED <<items, targets, saveName, saves, now, reading, runVars, serial, inserted, pureVars>>

\* the + button: setItemQty(id, getQty(id) + 1)
addOne ==
    /\ pc = "idle"
    /\ steps < MaxSteps
    /\ steps' = steps + 1
    /\ \E id \in ItemIds :
        qty' = withQty(qty, id, cleanQty(Num(getQty(qty, id) + Denom)))
    /\ last' = [op |-> "addOne"]
    /\ UNCHANGED <<items, targets, saveName, saves, now, reading, runVars, serial, inserted, pureVars>>

\* the - button: setItemQty(id, Math.max(0, getQty(id) - 1))
subOne ==
    /\ pc = "idle"
    /\ steps < MaxSteps
    /\ steps' = steps + 1
    /\ \E id \in ItemIds :
        qty' = withQty(qty, id, cleanQty(Num(Max(0, getQty(qty, id) - Denom))))
    /\ last' = [op |-> "subOne"]
    /\ UNCHANGED <<items, targets, saveName, saves, now, reading, runVars, serial, inserted, pureVars>>

\* filtered.filter((it) => it.category === cat), the search box being empty
group(cat) == filterSeq(items, [i \in 1..Len(items) |-> items[i].category = cat])

\* group.forEach((g) => (next[g.id] = (next[g.id] || 0) + 1))
RECURSIVE plusOneEach(_, _)
plusOneEach(q, g) ==
    IF g = <<>> THEN q
    ELSE plusOneEach(withQty(q, g[1].id, OrZero(q, g[1].id) + Denom), Tail(g))

\* group.forEach((g) => (next[g.id] = 0))
RECURSIVE zeroEach(_, _)
zeroEach(q, g) ==
    IF g = <<>> THEN q ELSE zeroEach(withQty(q, g[1].id, 0), Tail(g))

\* the categories that have a heading on screen
ShownCategories == {items[i].category : i \in 1..Len(items)}

\* the "+1 for this category" button
categoryPlusOne ==
    /\ pc = "idle"
    /\ steps < MaxSteps
    /\ steps' = steps + 1
    /\ \E cat \in ShownCategories : qty' = plusOneEach(qty, group(cat))
    /\ last' = [op |-> "categoryPlusOne"]
    /\ UNCHANGED <<items, targets, saveName, saves, now, reading, runVars, serial, inserted, pureVars>>

\* the "clear this category" button
categoryClear ==
    /\ pc = "idle"
    /\ steps < MaxSteps
    /\ steps' = steps + 1
    /\ \E cat \in ShownCategories : qty' = zeroEach(qty, group(cat))
    /\ last' = [op |-> "categoryClear"]
    /\ UNCHANGED <<items, targets, saveName, saves, now, reading, runVars, serial, inserted, pureVars>>

\* reset: setQty({})
reset ==
    /\ pc = "idle"
    /\ steps < MaxSteps
    /\ steps' = steps + 1
    /\ qty' = <<>>
    /\ last' = [op |-> "reset"]
    /\ UNCHANGED <<items, targets, saveName, saves, now, reading, runVars, serial, inserted, pureVars>>

\* a target input: setTargets({ ...targets, [k]: Number(e.target.value) || undefined })
TargetInputs == {NaN, Num(0), Num(250)}

setTarget ==
    /\ pc = "idle"
    /\ steps < MaxSteps
    /\ steps' = steps + 1
    /\ \E k \in {"budget", "maxKcal", "minProtein", "maxSalt"}, n \in TargetInputs :
        LET old == IF targets[1] = "object" THEN targets[2] ELSE <<>> IN
        targets' =
            IF n[1] = "number" /\ n[2] # 0
            THEN Obj([j \in DOMAIN old \cup {k} |-> IF j = k THEN n[2] ELSE old[j]])
            ELSE Obj([j \in DOMAIN old \ {k} |-> old[j]])
    /\ last' = [op |-> "setTarget"]
    /\ UNCHANGED <<items, qty, saveName, saves, now, reading, runVars, serial, inserted, pureVars>>

\* ------------------------------------------------------ catalog import

\* what JSON.parse(String(reader.result)) may meet in importJson: no JSON,
\* null, a number, and objects whose `items` and `targets` are present or
\* absent, well-formed or of another shape.  The arrays of items hold
\* well-formed items.
JsonFiles ==
    {Unparseable, Null, Num(1),
     Obj([items |-> Arr(<<ItemB>>), targets |-> Obj([budget |-> 500])]),
     Obj([items |-> Arr(<<>>)]),
     Obj([targets |-> Obj([maxKcal |-> 700])]),
     Obj([items |-> Str(<<"x">>), targets |-> Obj(<<>>)]),
     Obj([items |-> Obj(<<>>), targets |-> Null]),
     Obj([items |-> Arr(<<ItemA2, ItemA2>>), targets |-> Num(5)]),
     Obj([targets |-> Str(<<"x">>)])}

\* importJson(file): the read starts
importJson ==
    /\ pc = "idle"
    /\ steps < MaxSteps
    /\ steps' = steps + 1
    /\ \E f \in JsonFiles :
        reading' = Append(reading, [kind |-> "json", content |-> f])
    /\ last' = [op |-> "importJson"]
    /\ UNCHANGED <<items, qty, targets, saveName, saves, now, runVars, serial, inserted, pureVars>>

\* the try block of importJson throws: JSON.parse does, or reading a
\* property of null does
importJsonThrows(parsed) == parsed = Unparseable \/ parsed[1] = "null"

\* a catalog that is emptied when the import fails
itemsAfterImportClears(its, parsed) ==
    IF importJsonThrows(parsed) THEN <<>>
    ELSE IF Get(parsed, "items")[1] = "array" THEN Get(parsed, "items")[2] ELSE its

\* if (Array.isArray(parsed.items)) setItems(parsed.items)
itemsAfterImport(its, parsed) ==
    IF importJsonThrows(parsed) THEN its
    ELSE IF Get(parsed, "items")[1] = "array" THEN Get(parsed, "items")[2] ELSE its

\* if (parsed.targets) setTargets(parsed.targets)
targetsAfterImport(tg, parsed) ==
    IF importJsonThrows(parsed) THEN tg
    ELSE IF Truthy(Get(parsed, "targets")) THEN Get(parsed, "targets") ELSE tg

\* reader.onload of importJson: a read in flight completes
importJsonOnload ==
    /\ pc = "idle"
    /\ \E n \in 1..Len(reading) :
        LET parsed == reading[n].content IN
        /\ reading[n].kind = "json"
        /\ reading' = [i \in 1..(Len(reading) - 1) |->
                          IF i < n THEN reading[i] ELSE reading[i + 1]]
        /\ items' = itemsAfterImport(items, parsed)
        /\ targets' = targetsAfterImport(targets, parsed)
        /\ last' = [op |-> "importJsonOnload", file |-> parsed,
                    before |-> [items |-> items, targets |-> targets],
                    alert |-> importJsonThrows(parsed)]
    /\ UNCHANGED <<qty, saveName, saves, now, runVars, steps, serial, inserted, pureVars>>

InitImport == Mounted(<<ItemA, ItemB>>, DefaultTargets)

NextImport ==
    \/ saveCurrent
    \/ importSaves
    \/ importSavesOnload
    \/ importJson
    \/ importJsonOnload

SpecImport == InitImport /\ [][NextImport]_vars

\* ------------------------------------------------------- catalog editor

\* rows the edited text may hold: the two items of the initial catalog, the
\* free item, and rows with a field missing, empty or of another type
Row(it) ==
    Obj([k \in DOMAIN it |-> IF k = "price" \/ k = "protein" THEN Num(it[k]) ELSE Str(it[k])])

RowNoId == Obj([name |-> Str("N"), category |-> Str("Side"), price |-> Num(100)])

RowEmptyId ==
    Obj([id |-> Str(""), name |-> Str("N"), category |-> Str("Side"), price |-> Num(100)])

RowNoName == Obj([id |-> Str("n"), category |-> Str("Side"), price |-> Num(100)])

RowNoCategory == Obj([id |-> Str("n"), name |-> Str("N"), price |-> Num(100)])

RowTextPrice ==
    Obj([id |-> Str("n"), name |-> Str("N"), category |-> Str("Side"), price |-> Str("100")])

RowNoPrice == Obj([id |-> Str("n"), name |-> Str("N"), category |-> Str("Side")])

RowPool ==
    {Row(ItemA), Row(ItemB), Row(ItemFree), RowNoId, RowEmptyId, RowNoName,
     RowNoCategory, RowTextPrice, RowNoPrice, Null, Num(1)}

\* what JSON.parse(text) may meet: no JSON, JSON that is not an array, the
\* empty array, and each row of the pool alone and after a well-formed row
EditorTexts ==
    {Unparseable, Obj(<<>>), Null, Arr(<<>>)}
        \cup {Arr(<<r>>) : r \in RowPool}
        \cup {Arr(<<Row(ItemFree), r>>) : r \in RowPool}

\* a row as an element of the catalog
asItem(row) == [k \in DOMAIN row[2] |-> row[2][k][2]]

\* a row check that does not look at the price
rowThrowsIgnoringPrice(it) ==
    \/ it[1] = "null"
    \/ ~Truthy(Get(it, "id"))
    \/ ~Truthy(Get(it, "name"))
    \/ ~Truthy(Get(it, "category"))

\* the callback of next.forEach throws on row `it` (reading a property of
\* null throws as well)
rowThrows(it) ==
    \/ it[1] = "null"
    \/ ~Truthy(Get(it, "id"))
    \/ ~Truthy(Get(it, "name"))
    \/ ~Truthy(Get(it, "category"))
    \/ TypeOf(Get(it, "price")) # "number"

\* the try block of tryApply throws
tryApplyThrows(nxt) ==
    \/ nxt = Unparseable
    \/ nxt[1] # "array"
    \/ \E i \in 1..Len(nxt[2]) : rowThrows(nxt[2][i])

\* JsonEditor.tryApply on the text that parses to `nxt` (the code's `next`)
tryApply ==
    /\ pc = "idle"
    /\ steps < MaxSteps
    /\ steps' = steps + 1
    /\ \E nxt \in EditorTexts :
        /\ items' = IF tryApplyThrows(nxt) THEN items
                    ELSE [i \in 1..Len(nxt[2]) |-> asItem(nxt[2][i])]
        /\ last' = [op |-> "tryApply", text |-> nxt, before |-> items,
                    error |-> tryApplyThrows(nxt)]
    /\ UNCHANGED <<qty, targets, saveName, saves, now, reading, runVars, serial, inserted, pureVars>>

InitEditor == Mounted(<<ItemA, ItemB>>, DefaultTargets)

NextEditor ==
    \/ tryApply
    \/ setItemQty

SpecEditor == InitEditor /\ [][NextEditor]_vars

\* ------------------------------------------------------ persisted state

\* localStorage.getItem(key) returns null for a key that is missing, or the
\* text stored.  A text is modelled by what JSON.parse makes of it: a JSON
\* value, or a syntax error; the empty text is kept apart because the hook
\* tests `raw` for truthiness before parsing.
Missing == <<"missing", 0>>

EmptyText == <<"empty", 0>>

\* the built-in catalog, here two items long
defaultItems == <<ItemA, ItemB>>

\* the initial state of usePersistentState(key, initial) when getItem(key)
\* returns raw:  raw ? JSON.parse(raw) : initial,  and initial when that throws
usePersistentState(raw, initial) ==
    IF raw[1] \in {"missing", "empty"} THEN initial
    ELSE IF raw[1] = "syntaxerror" THEN initial
    ELSE raw

\* what each of the four keys may hold: nothing, the empty text, a text that
\* is not JSON, the text of a value of the key's type, and the texts of null
\* and of a value of another type
Storages ==
    [items   : {Missing, EmptyText, Unparseable, Arr(<<ItemB>>), Null, Obj(<<>>)},
     qty     : {Missing, EmptyText, Unparseable, Obj([a |-> Denom]), Null, Num(5)},
     targets : {Missing, EmptyText, Unparseable, Obj([budget |-> 500]), Null, Str(<<"x">>)},
     saves   : {Missing, EmptyText, Unparseable, Arr(<<ImportedA>>), Null, Obj(<<>>)}]

\* the four hooks of SaizeriyaSimulator, each with its built-in default
initialState(st) ==
    [items   |-> usePersistentState(st.items, Arr(defaultItems)),
     qty     |-> usePersistentState(st.qty, Obj(<<>>)),
     targets |-> usePersistentState(st.targets, DefaultTargets),
     saves   |-> usePersistentState(st.saves, Arr(<<>>))]

\* the component is constructed over a storage
CallInitialState ==
    /\ call = NoCall
    /\ \E st \in Storages :
        /\ call' = [fn |-> "initialState", storage |-> st]
        /\ ret' = initialState(st)
    /\ UNCHANGED <<appVars, runVars, histVars>>

InitStorage == Mounted(<<ItemA, ItemB>>, DefaultTargets)

NextStorage == CallInitialState

SpecStorage == InitStorage /\ [][NextStorage]_vars

\* ledgers the page has written to storage before a reload: the empty one,
\* the ledgers of the two importable combos once loaded, and a ledger with
\* one and a half units of an item
StoredLedgers ==
    {<<>>, [a |-> 2 * Denom], [a |-> -Denom, x |-> 1], [a |-> Denom + 1, b |-> Denom]}

\* The state of a component mounted over a storage that holds the ledger q
\* and nothing else.
Resumed(q) ==
    /\ items = usePersistentState(Missing, Arr(defaultItems))[2]
    /\ qty = usePersistentState(Obj(q), Obj(<<>>))[2]
    /\ targets = usePersistentState(Missing, DefaultTargets)
    /\ saveName = LocaleString(0)
    /\ saves = usePersistentState(Missing, Arr(<<>>))[2]
    /\ now = 0
    /\ reading = <<>>
    /\ pc = "idle"
    /\ sorted = <<>>
    /\ next = <<>>
    /\ cost = 0
    /\ idx = 0
    /\ steps = 0
    /\ last = [op |-> "mount"]
    /\ serial = <<>>
    /\ inserted = 0
    /\ call = NoCall
    /\ ret = <<>>

InitResumed == \E q \in StoredLedgers : Resumed(q)

\* a session after a reload: the strategies, the saves and the ledger
NextResumed ==
    \/ tick
    \/ reset
    \/ setTarget
    \/ greedyStart
    \/ greedyScan
    \/ greedyEndOfScan
    \/ randomStart
    \/ randomItem
    \/ randomDone
    \/ saveCurrent
    \/ loadSave

SpecResumed == InitResumed /\ [][NextResumed]_vars

\* ------------------------------------------------------- the application

Init == Mounted(<<ItemA, ItemB>>, DefaultTargets)

Next ==
    \/ tick
    \/ setItemQty
    \/ addOne
    \/ subOne
    \/ categoryPlusOne
    \/ categoryClear
    \/ reset
    \/ setTarget
    \/ greedyStart
    \/ greedyScan
    \/ greedyEndOfScan
    \/ randomStart
    \/ randomItem
    \/ randomDone
    \/ setSaveName
    \/ saveCurrent
    \/ loadSave
    \/ deleteSave
    \/ importSaves
    \/ importSavesOnload

Spec == Init /\ [][Next]_vars

\* ------------------------------------------------- claims on pure functions

Attributes == {"price", "kcal", "protein", "fat", "carbs", "salt"}

\* the effective quantity of the specification: max(0, ledger[id] or 0)
EffectiveQty(l, id) ==
    IF id \in DOMAIN l /\ l[id] > 0 THEN l[id] ELSE 0

\* the sum of f[i] over the indices i in S
RECURSIVE Sigma(_, _)
Sigma(f, S) ==
    IF S = {} THEN 0
    ELSE LET i == CHOOSE j \in S : TRUE IN f[i] + Sigma(f, S \ {i})

\* the total of attribute k, a missing attribute counting 0
Weighted(its, l, k) ==
    Sigma([i \in 1..Len(its) |->
              (IF k \in DOMAIN its[i] THEN its[i][k] ELSE 0) * EffectiveQty(l, its[i].id)],
          1..Len(its))

\* C1: computeTotals returns, for each of price, kcal, protein, fat, carbs and
\* salt, the sum over the items of the attribute (0 when absent) times
\* max(0, ledger[id] or 0), and as count the sum of those quantities; the
\* self-test items with ledger {a:2, b:1} give price 400, protein 25, count 3.
C1_TotalsAreWeightedSums ==
    call.fn = "computeTotals" =>
        /\ \A k \in Attributes : ret[k] = Weighted(call.items, call.qty, k)
        /\ ret.count =
              Sigma([i \in 1..Len(call.items) |-> EffectiveQty(call.qty, call.items[i].id)],
                    1..Len(call.items))
        /\ (call.items = <<ItemA, ItemB>> /\ call.qty = [a |-> 2 * Denom, b |-> Denom]) =>
              /\ ret.price = 400 * Denom
              /\ ret.protein = 25 * Denom
              /\ ret.count = 3 * Denom

\* C1 witness: computeTotals has been called on the self-test example, and on
\* it an absent attribute (kcal) totals 0.
C1_Witness ==
    /\ call.fn = "computeTotals"
    /\ call.items = <<ItemA, ItemB>>
    /\ call.qty = [a |-> 2 * Denom, b |-> Denom]
    /\ ret.price = 400 * Denom
    /\ ret.kcal = 0

\* C7: createSavedCombo returns a qty without zero or negative values, every
\* value being the floor of the ledger value, a whole number; the ledger
\* {a:2, b:0, c:-1} gives exactly {a:2}.
C7_QtyHasOnlyPositiveIntegers ==
    call.fn = "createSavedCombo" =>
        LET saved == ret[2].qty[2] IN
        /\ \A k \in DOMAIN saved :
              /\ saved[k] > 0
              /\ IsInteger(saved[k])
              /\ saved[k] = Floor(call.qty[k])
        /\ call.qty = [a |-> 2 * Denom, b |-> 0, c |-> -Denom] =>
              saved = [a |-> 2 * Denom]

\* C9: each dimension of passFail is true when its target is unset; otherwise
\* budget, kcal and salt pass iff the total is at most the threshold and
\* protein passes iff the total is at least the threshold; price 1000 passes
\* budget 1000 and price 1001 fails it.
C9_PassFailRule ==
    call.fn = "passFail" =>
        LET tot == call.totals
            tg == call.targets[2]
            set(k) == k \in DOMAIN tg
        IN
        /\ ret.budget = (~set("budget") \/ tot.price <= tg.budget * Denom)
        /\ ret.kcal = (~set("maxKcal") \/ tot.kcal <= tg.maxKcal * Denom)
        /\ ret.protein = (~set("minProtein") \/ tot.protein >= tg.minProtein * Denom)
        /\ ret.salt = (~set("maxSalt") \/ tot.salt <= tg.maxSalt * Denom)
        /\ (call.targets = Obj([budget |-> 1000]) /\ tot.price = 1000 * Denom) =>
              ret.budget
        /\ (call.targets = Obj([budget |-> 1000]) /\ tot.price = 1001 * Denom) =>
              ~ret.budget

\* C9 witness: passFail has been evaluated with only the budget set, on a total
\* price equal to the budget, and passed every dimension.
C9_Witness ==
    /\ call.fn = "passFail"
    /\ call.targets = Obj([budget |-> 1000])
    /\ call.totals.price = 1000 * Denom
    /\ call.totals.protein = 0
    /\ ret = [budget |-> TRUE, kcal |-> TRUE, protein |-> TRUE, salt |-> TRUE]

\* -------------------------------------------------------- claims on strategies

\* the totals of the current selection (the `totals` memo)
totals == computeTotals(items, qty)

\* C2: after greedy or random has run, the total price of the ledger, as
\* computeTotals gives it over the current catalog, does not exceed the active
\* budget (targets.budget, or 1000 when it is unset).
C2_StrategiesStayWithinBudget ==
    (pc = "idle" /\ last.op \in {"greedy", "random"}) =>
        totals.price <= Budget(targets) * Denom

\* C3: a greedy run ends, and when it has ended no catalog item fits the
\* remaining budget (cost + item.price > budget for every item).
C3_GreedyTerminates ==
    (pc = "greedy") ~>
        (pc = "idle" /\ last.op = "greedy" /\ nothingFits(items, last.cost, Budget(targets)))

\* ---------------------------------------------------- claims on the ledger

\* C8: in every reachable state of the application every value in the ledger
\* is a non-negative whole number.
C8_LedgerValuesAreNaturals ==
    \A k \in DOMAIN qty : qty[k] >= 0 /\ IsInteger(qty[k])

\* ------------------------------------------------ claims on saved combos

Range(f) == {f[i] : i \in DOMAIN f}

\* C4: the collection of saved combos holds at most 50 entries.
C4_AtMostMaxSaves == Len(saves) <= MAX_SAVES

\* C4 witness: saveCurrent has inserted into a full collection, which still
\* holds exactly 50 entries.
C4_Witness ==
    /\ last.op = "saveCurrent"
    /\ inserted > MAX_SAVES
    /\ Len(saves) = MAX_SAVES

\* C5: an insert (saveCurrent, or an import of valid entries) that would take
\* the collection past its capacity keeps exactly the 50 most recently
\* inserted entries, in insertion order: every entry it drops was inserted
\* before every entry it keeps.
C5_OldestDroppedFirst ==
    [][inserted' > inserted =>
          LET offered == Range(serial) \cup ((inserted + 1)..inserted')
              kept == Range(serial')
          IN
          /\ Len(serial') = Len(saves')
          /\ Len(serial') = Min(Len(serial) + (inserted' - inserted), MAX_SAVES)
          /\ kept \subseteq offered
          /\ \A i, j \in 1..Len(serial') : i < j => serial'[i] < serial'[j]
          /\ \A d \in offered \ kept : \A k \in kept : d < k
      ]_vars

\* C5 witness: an import into a non-empty collection has overflowed it; the
\* oldest entry is gone and the newest entry is the last one inserted.
C5_Witness ==
    /\ last.op = "importSavesOnload"
    /\ Len(saves) = MAX_SAVES
    /\ serial[1] > 1
    /\ serial[MAX_SAVES] = inserted
    /\ inserted > Len(last.parsed)

\* C6: the entries of the collection have pairwise distinct ids.
C6_DistinctIds ==
    \A i, j \in 1..Len(saves) :
        i # j => Get(saves[i], "id") # Get(saves[j], "id")

\* C10 as claimed: after an import of an array, each entry of the array that
\* passes validateSavedCombo is in the collection and no entry that fails it is.
C10_ImportKeepsEveryValidEntry ==
    (last.op = "importSavesOnload" /\ ~last.alert) =>
        \A i \in 1..Len(last.parsed) :
            validateSavedCombo(last.parsed[i]) <=> last.parsed[i] \in Range(saves)

\* C10 as amended: after an import of an array, each of the array's last 50
\* valid entries is in the collection (all of them when there are at most
\* 50, as in an export of the collection), and no entry that fails
\* validateSavedCombo is; the import is not aborted by a malformed entry.
C10_ImportKeepsLastValidEntries ==
    (last.op = "importSavesOnload" /\ ~last.alert) =>
        LET arr == last.parsed
            nValid == Cardinality({i \in 1..Len(arr) : validateSavedCombo(arr[i])})
            \* the number of valid entries from position i on
            after(i) == Cardinality({j \in i..Len(arr) : validateSavedCombo(arr[j])})
        IN
        /\ \A i \in 1..Len(arr) :
              IF validateSavedCombo(arr[i])
              THEN after(i) <= MAX_SAVES => arr[i] \in Range(saves)
              ELSE arr[i] \notin Range(saves)
        /\ nValid <= MAX_SAVES =>
              \A i \in 1..Len(arr) : validateSavedCombo(arr[i]) => arr[i] \in Range(saves)
        \* every entry of the collection is well-formed and is still well-formed
        \* in the file exportSaves writes
        /\ \A i \in 1..Len(saves) :
              /\ validateSavedCombo(saves[i])
              /\ validateSavedCombo(exportSaves(saves)[2][i])

\* C10 witness: an array holding a malformed entry between two well-formed ones
\* has been imported, and both well-formed entries are in the collection.
C10_Witness ==
    /\ last.op = "importSavesOnload"
    /\ last.parsed = <<ImportedA, ImportedNoName, ImportedB>>
    /\ ImportedA \in Range(saves)
    /\ ImportedB \in Range(saves)
    /\ ImportedNoName \notin Range(saves)

\* ------------------------------------------------------ claims on imports

\* reading without its n-th entry
WithoutRead(n) ==
    [i \in 1..(Len(reading) - 1) |-> IF i < n THEN reading[i] ELSE reading[i + 1]]

\* the file of read r is malformed: for importSaves, anything that is not a
\* JSON array; for importJson, anything that is not JSON
MalformedRead(r) ==
    \/ r.kind = "saves" /\ r.content[1] # "array"
    \/ r.kind = "json" /\ r.content = Unparseable

\* C11: when the read of a malformed file completes (importSaves: not JSON or
\* not an array; importJson: not JSON), an error is reported and the saves,
\* the catalog, the targets and every other piece of state stay as they were.
C11_MalformedImportChangesNothing ==
    [][\A n \in 1..Len(reading) :
          (reading' = WithoutRead(n) /\ MalformedRead(reading[n])) =>
              /\ last'.alert
              /\ UNCHANGED <<items, qty, targets, saveName, saves, now, runVars>>
      ]_vars

\* C11 witness: a file that is not an array has been given to importSaves while
\* the collection held an entry, and the error has been reported.
C11_Witness ==
    /\ last.op = "importSavesOnload"
    /\ last.alert
    /\ Len(saves) > 0
    /\ reading = <<>>

\* C12: after importJson of a file that parses, the catalog is the file's
\* `items` if that is an array and is unchanged otherwise, and the targets are
\* the file's `targets` if that is an object and are unchanged otherwise.
C12_ImportJsonAppliesWellFormedFields ==
    (last.op = "importJsonOnload" /\ ~last.alert) =>
        LET its == Get(last.file, "items")
            tg == Get(last.file, "targets")
        IN
        /\ items = IF its[1] = "array" THEN its[2] ELSE last.before.items
        /\ targets = IF tg[1] = "object" THEN tg ELSE last.before.targets

\* a row lacks field k: it has none, or an empty one
Lacks(row, k) ==
    \/ row[1] # "object"
    \/ k \notin DOMAIN row[2]
    \/ row[2][k][1] \in {"null", "undefined"}
    \/ row[2][k][1] = "string" /\ row[2][k][2] = ""
    \/ row[2][k][1] = "number" /\ row[2][k][2] = 0

\* C13: a catalog edit is all-or-nothing.  If the text is not a JSON array, or
\* some element lacks (has no, or an empty) id, name or category, or has a
\* price that is not a number, the catalog is what it was and an error is
\* reported; otherwise the catalog is the whole edited list and no error is
\* reported.  The ledger and the targets are untouched either way.
C13_CatalogEditIsAllOrNothing ==
    [][last'.op = "tryApply" /\ steps' = steps + 1 =>
          LET txt == last'.text
              rejected ==
                  \/ txt[1] # "array"
                  \/ \E i \in 1..Len(txt[2]) :
                        \/ Lacks(txt[2][i], "id")
                        \/ Lacks(txt[2][i], "name")
                        \/ Lacks(txt[2][i], "category")
                        \/ txt[2][i][1] # "object"
                        \/ "price" \notin DOMAIN txt[2][i][2]
                        \/ txt[2][i][2].price[1] # "number"
          IN
          /\ rejected => items' = items /\ last'.error
          /\ ~rejected =>
                /\ ~last'.error
                /\ Len(items') = Len(txt[2])
                /\ \A i \in 1..Len(txt[2]) : Row(items'[i]) = txt[2][i]
          /\ UNCHANGED <<qty, targets, saves>>
      ]_vars

\* C13 witness: an edit whose second row has a price that is not a number has
\* been rejected, and the catalog is the two-item catalog it was.
C13_Witness ==
    /\ last.op = "tryApply"
    /\ last.text = Arr(<<Row(ItemFree), RowTextPrice>>)
    /\ last.error
    /\ items = <<ItemA, ItemB>>

\* ------------------------------------------------- claims on validation

\* s is a (non-null) object whose field k is present with a value of type ty
HasTyped(s, k, tags) == s[1] = "object" /\ k \in DOMAIN s[2] /\ s[2][k][1] \in tags

\* s without its field k
Without(s, k) == Obj([j \in DOMAIN s[2] \ {k} |-> s[2][j]])

\* s with its field k set to v
With(s, k, v) == Obj([j \in DOMAIN s[2] \cup {k} |-> IF j = k THEN v ELSE s[2][j]])

\* C14: validateSavedCombo(s) is true exactly when s is an object with a string
\* id, a string name, a numeric createdAt and a qty that is an object (a plain
\* object or an array, not null); the answer is the same whatever qty holds
\* and whether targets is there or not, and of whatever shape.
C14_ValidateIsTheStructuralCheck ==
    call.fn = "validateSavedCombo" =>
        LET s == call.s IN
        /\ ret = (/\ HasTyped(s, "id", {"string"})
                  /\ HasTyped(s, "name", {"string"})
                  /\ HasTyped(s, "createdAt", {"number"})
                  /\ HasTyped(s, "qty", {"object", "array"}))
        /\ s[1] = "object" =>
              /\ ret = validateSavedCombo(Without(s, "targets"))
              /\ ret = validateSavedCombo(With(s, "targets", Num(5)))
              /\ HasTyped(s, "qty", {"object"}) =>
                    /\ ret = validateSavedCombo(With(s, "qty", Obj(<<>>)))
                    /\ ret = validateSavedCombo(With(s, "qty", Obj([a |-> -Denom, zz |-> 1])))

\* C14 witness: a candidate with the four fields well-typed, a negative and a
\* fractional quantity and a targets that is a string has been accepted.
C14_Witness ==
    /\ call.fn = "validateSavedCombo"
    /\ call.s = Obj([id |-> Str(""), name |-> Str("n"), createdAt |-> Num(0),
                     qty |-> Obj([a |-> -Denom, x |-> 1]), targets |-> Str("t")])
    /\ ret = TRUE

\* C15: whatever the name, the ledger and the targets, the saved combo that
\* createSavedCombo returns passes validateSavedCombo.
C15_CreatedComboIsValid ==
    call.fn = "createSavedCombo" => validateSavedCombo(ret)

\* C15 witness: createSavedCombo has been called with a blank name, an empty
\* ledger and no targets, and what it returned passes validateSavedCombo.
C15_Witness ==
    /\ call.fn = "createSavedCombo"
    /\ call.name = <<" ">>
    /\ call.qty = <<>>
    /\ call.targets = Undefined
    /\ validateSavedCombo(ret)

\* ------------------------------------------------ claims on computeTotals

\* C16: computeTotals is linear in the ledger: with every quantity of the
\* ledger multiplied by a whole k >= 0, every field of the totals is k times
\* what it was.
C16_TotalsAreLinear ==
    call.fn = "computeTotalsBinary64" =>
        \A k \in 0..MaxScale :
            LET scaled == [id \in DOMAIN call.qty |-> k * call.qty[id]]
                t == computeTotalsBinary64(call.items, scaled)
            IN \A f \in DOMAIN ret : t[f] = DblMul(DblOfNat(k), ret[f])

\* the ledger l without its entries that are zero, negative, or keyed by an id
\* no item of its has
Pruned(its, l) ==
    [id \in {j \in DOMAIN l : l[j] > 0 /\ \E i \in 1..Len(its) : its[i].id = j} |-> l[id]]

ZeroTotals ==
    [count |-> 0, price |-> 0, kcal |-> 0, protein |-> 0, fat |-> 0, carbs |-> 0, salt |-> 0]

\* C17: ledger entries that are zero, negative, or keyed by an id the catalog
\* does not have do not affect computeTotals: the totals are those of the
\* ledger without them.  So the totals of the empty ledger and of a ledger
\* with only negative entries are all zero, and over the self-test items the
\* ledger {a:2, x:2} gives the totals of {a:2}.
C17_IgnoredEntriesDoNotCount ==
    call.fn = "computeTotals" =>
        /\ ret = computeTotals(call.items, Pruned(call.items, call.qty))
        /\ (\A id \in DOMAIN call.qty : call.qty[id] <= 0) => ret = ZeroTotals
        /\ Pruned(call.items, call.qty) = <<>> => ret = ZeroTotals
        /\ (call.items = <<ItemA, ItemB>> /\ call.qty = [a |-> 2 * Denom, x |-> 2 * Denom]) =>
              /\ ret = computeTotals(call.items, [a |-> 2 * Denom])
              /\ ret.price = 200 * Denom

\* C17 witness: computeTotals has been called on the self-test items with a
\* ledger holding a positive, a zero, a negative and an orphan entry, and the
\* total price is that of the positive entry.
C17_Witness ==
    /\ call.fn = "computeTotals"
    /\ call.items = <<ItemA, ItemB>>
    /\ call.qty = [a |-> 2 * Denom, b |-> 0, c |-> -Denom, x |-> 2 * Denom]
    /\ ret.price = 200 * Denom
    /\ ret.count = 2 * Denom

\* ------------------------------------------------- claims on simpleFilter

\* the lower-case form of an ASCII string, and of any string whose other
\* code points have none
AsciiLower(str) == [i \in 1..Len(str) |-> IF str[i] \in 65..90 THEN str[i] + 32 ELSE str[i]]

\* str without the white space at its two ends
Trimmed(str) ==
    LET inner == {i \in 1..Len(str) : str[i] \notin {9, 10, 32, 160, 12288}} IN
    IF inner = {} THEN <<>>
    ELSE SubSeq(str, CHOOSE i \in inner : \A j \in inner : i <= j,
                     CHOOSE i \in inner : \A j \in inner : i >= j)

\* the text an item is searched in: name, category and tags, space-joined
SearchText(it) ==
    LET fields == <<it.name, it.category>> \o (IF "tags" \in DOMAIN it THEN it.tags ELSE <<>>)
        \* the fields from the n-th on, each preceded by a space
        RECURSIVE rest(_)
        rest(n) == IF n > Len(fields) THEN <<>> ELSE <<32>> \o fields[n] \o rest(n + 1)
    IN fields[1] \o rest(2)

\* key occurs in text
Occurs(key, text) ==
    \E i \in 0..(Len(text) - Len(key)) : \A j \in 1..Len(key) : text[i + j] = key[j]

C19_SelfTestQueriesFindOneItem ==
    (call.fn = "simpleFilter" /\ call.items = <<P1, P2>>) =>
        /\ call.q = Pasta => ret = <<P1>>
        /\ call.q = PastaKana => ret = <<P1>>
        /\ call.q = Hamburg => ret = <<P2>>

\* ------------------------------------------- claims on the greedy order

\* the ratios of a and b are equal numbers
SameRatio(a, b) ==
    /\ RatioClass(a) # "nan"
    /\ RatioClass(b) # "nan"
    /\ ~RatioGreater(a, b)
    /\ ~RatioGreater(b, a)

\* C20: the greedy strategy is deterministic and scans the items in
\* descending order of (protein or 0) / price, items of equal ratio in the
\* order of the catalog: the order of the scan is the only one the sort can
\* give for the catalog, no item is scanned after an item of smaller ratio,
\* and of two items of equal ratio the one earlier in the catalog is scanned
\* first.
C20_GreedyScansByDescendingRatio ==
    pc = "greedy" =>
        /\ \A s \in greedySorted(items) : s = sorted
        /\ \A i, j \in 1..Len(sorted) : i < j => ~RatioGreater(sorted[j], sorted[i])
        /\ \E p \in Orderings(Len(items)) :
              /\ sorted = [i \in 1..Len(items) |-> items[p[i]]]
              /\ \A i, j \in 1..Len(items) :
                    (i < j /\ SameRatio(items[p[i]], items[p[j]])) => p[i] < p[j]

\* --------------------------------------------- claims on frames and storage

\* the ledger a strategy hands to setQty: the one it built from {} during
\* this run, with the unit of the pass that breaks out of the loop
RunLedger ==
    IF pc = "greedy" /\ idx <= Len(sorted)
          /\ cost + sorted[idx].price <= Budget(targets)
    THEN addUnit(next, sorted[idx].id)
    ELSE next

\* C21: a run of greedyOptimizeProtein or randomUnderBudget starts from an
\* empty ledger of its own, leaves the ledger alone until it ends, ends by
\* replacing the ledger with the one it built (whole units of catalog items
\* only, nothing of the previous ledger), and never changes the catalog, the
\* targets or the saved combos.
C21_StrategiesReplaceTheLedger ==
    [][(pc # "idle" \/ pc' # "idle") =>
          /\ items' = items
          /\ targets' = targets
          /\ saves' = saves
          /\ pc = "idle" => (next' = <<>> /\ qty' = qty)
          /\ (pc # "idle" /\ pc' # "idle") => qty' = qty
          /\ (pc # "idle" /\ pc' = "idle") =>
                /\ qty' = RunLedger
                /\ \A id \in DOMAIN qty' :
                      /\ id \in ItemIds
                      /\ qty'[id] >= Denom
                      /\ qty'[id] % Denom = 0]_vars

\* a run has ended right after a save of the previous ledger, and its ledger
\* lacks an id that the saved ledger has
C21_Witness ==
    /\ pc = "idle"
    /\ last.op \in {"greedy", "random"}
    /\ steps = 2
    /\ Len(saves) = 1
    /\ qty # <<>>
    /\ \E id \in DOMAIN Get(saves[1], "qty")[2] : id \notin DOMAIN qty

\* the value each key takes when nothing usable is stored under it
BuiltIn ==
    [items |-> Arr(defaultItems), qty |-> Obj(<<>>),
     targets |-> DefaultTargets, saves |-> Arr(<<>>)]

\* the stored text is the JSON of a value of the key's type: a list for the
\* catalog and the saves, an object for the ledger and the targets
WellFormed(k, raw) ==
    IF k \in {"items", "saves"} THEN raw[1] = "array" ELSE raw[1] = "object"

\* C22: at initialization, a key whose stored entry is missing or corrupt
\* (not the JSON of a value of the key's type) takes its built-in default,
\* whatever the other keys hold.
C22_MissingOrCorruptEntryGivesDefault ==
    call.fn = "initialState" =>
        \A k \in DOMAIN BuiltIn :
            ~WellFormed(k, call.storage[k]) => ret[k] = BuiltIn[k]

\* C23: a combo just saved holds the effective quantity of every id of the
\* ledger and the targets of the moment, and loading a combo installs the
\* ledger and the targets it holds; so save then load gives back the effective
\* quantities and the targets.
C23_SaveThenLoadRestores ==
    /\ last.op = "saveCurrent" =>
          /\ \A id \in DOMAIN qty \cup DOMAIN Get(last.saved, "qty")[2] :
                EffectiveQty(Get(last.saved, "qty")[2], id) = EffectiveQty(qty, id)
          /\ Get(last.saved, "targets") = targets
    /\ last.op = "loadSave" =>
          /\ qty = Get(last.saved, "qty")[2]
          /\ targets = Get(last.saved, "targets")

C25_DeleteRemovesExactlyTheId ==
    [][(last'.op = "deleteSave" /\ steps' = steps + 1) =>
          LET Kept == {i \in 1..Len(saves) : Get(saves[i], "id") # last'.id} IN
          /\ Len(saves') = Cardinality(Kept)
          /\ \A i \in Kept : saves'[Cardinality({j \in Kept : j <= i})] = saves[i]
          /\ qty' = qty
          /\ targets' = targets
          /\ items' = items
          /\ Kept = 1..Len(saves) => saves' = saves]_vars

\* an entry imported twice has been deleted: both copies are gone and the
\* entry that stood between them is left
C25_Witness ==
    /\ last.op = "deleteSave"
    /\ last.id = Get(ImportedA, "id")
    /\ steps = 2
    /\ inserted = 3
    /\ saves = <<ImportedB>>

====
